---------------------------- MODULE Spec2Model ----------------------------
(***************************************************************************)
(* The Conversation Controller of src/app/page.tsx (ChatPage): the React   *)
(* state (messages, input, isLoading, error), the two UI operations        *)
(* handleSendMessage and handleClearChat, and every suspension point of    *)
(* the asynchronous send (fetch, response.text(), response.json(),         *)
(* reader.read(), the 60 s abort timer); and the Completion Proxy of       *)
(* src/app/api/chat/route.ts (POST) with its awaits (req.json(), the        *)
(* upstream fetch, the upstream body).                                      *)
(*                                                                         *)
(* Texts are sequences of symbols.  A symbol is one character ("H", " ",   *)
(* "NL" for the newline) or one lexical unit of the wire format ("data: ", *)
(* "{text", "{error", "}", "[DONE]"); the fixed user-facing strings of the *)
(* program are one-symbol texts.  JavaScript runs each callback to         *)
(* completion, so one action is the code between two awaits.               *)
(***************************************************************************)
EXTENDS Integers, Sequences, FiniteSets, TLC

VARIABLES
    messages,   \* useState<Message[]>: sequence of [id, role, content]
    input,      \* useState(""): the entry field
    isLoading,  \* useState(false)
    error,      \* useState<string | null>(null): lastError
    nextId,     \* generateId(): the next fresh message id
    sendsLeft,  \* accepted sends the run still allows
    handlers,   \* the activations of handleSendMessage: locals and position
    framesLeft, \* frames the streaming backend may still send in the run
    ev,         \* the kind of callback that ran last (history variable):
                \* init, send, sendIgnored, clear, input, chunk, async
    API_KEY,    \* process.env.API_KEY of the server process (Null when unset)
    proxy       \* the activations of POST (route.ts), one per request

vars == <<messages, input, isLoading, error, nextId, sendsLeft, handlers, framesLeft, ev,
          API_KEY, proxy>>

\* the state of the page and the state of the server
pageVars == <<messages, input, isLoading, error, nextId, sendsLeft, handlers, framesLeft, ev>>

serverVars == <<API_KEY, proxy>>

----------------------------------------------------------------------------
(* Bounds *)

\* accepted sends in one run
MaxSends == 2

\* frames the streaming backend sends in one run
MaxFrames == 1

\* frames the streaming backend sends in a run of one send (StreamSpec)
MaxStreamFrames == 3

Handlers == 1..MaxSends

----------------------------------------------------------------------------
(* Texts *)

Null == <<"null">>

NL == "NL"

IsSpace(c) == c \in {" ", NL}

RECURSIVE TrimStart(_)
TrimStart(s) ==
    IF s # <<>> /\ IsSpace(Head(s)) THEN TrimStart(Tail(s)) ELSE s

RECURSIVE TrimEnd(_)
TrimEnd(s) ==
    IF s # <<>> /\ IsSpace(s[Len(s)]) THEN TrimEnd(SubSeq(s, 1, Len(s) - 1)) ELSE s

Trim(s) == TrimEnd(TrimStart(s))

Truthy(t) == t # Null /\ t # <<>>

----------------------------------------------------------------------------
(* Fixed strings of the program *)

\* FALLBACK_RESPONSES (page.tsx 26-31), each string one symbol
FALLBACK_RESPONSES == << <<"fallback0">>, <<"fallback1">>, <<"fallback2">>, <<"fallback3">> >>

FallbackTexts == {FALLBACK_RESPONSES[i] : i \in DOMAIN FALLBACK_RESPONSES}

\* Math.floor(Math.random() * FALLBACK_RESPONSES.length): any index 0..length-1
FallbackIndexes == 0..(Len(FALLBACK_RESPONSES) - 1)

getFallbackResponse(index) == FALLBACK_RESPONSES[index + 1]

NoResponseText == <<"Ne udalos poluchit otvet ot modeli.">>

TimeoutMessage == <<"Vremya ozhidaniya isteklo. Pozhaluysta, poprobuyte snova.">>

UnexpectedFormatMessage == <<"Neozhidannyi format otveta ot servera">>

NoBodyMessage == <<"Telo otveta otsutstvuet">>

ServerErrorMessage(status, text) ==
    <<"Oshibka servera: ", ToString(status), ". ">> \o text

\* what the platform reports: fetch/read rejection, JSON.parse failure, abort
NetworkErrorMessage == <<"Failed to fetch">>

SyntaxErrorMessage == <<"Unexpected token">>

AbortErrorName == "AbortError"

----------------------------------------------------------------------------
(* Inputs of the environment *)

\* what the user can type: empty, whitespace only, text, text with blanks around
InputTexts == { <<>>, <<" ">>, <<" ", "a">> }

\* the suggested prompts of the empty conversation (page.tsx 269-289)
PromptTexts == { <<"prompt">> }

\* response headers: status and declared Content-Type ("" when the header is missing)
Responses ==
    { [status |-> 200, ctype |-> "application/json"],
      [status |-> 200, ctype |-> "text/event-stream"],
      [status |-> 200, ctype |-> ""],
      [status |-> 500, ctype |-> "application/json"] }

\* body text of a non-success response
ErrorBodies == { <<"oops">> }

\* a field of the JSON body: absent (Null), empty, or a text
JsonPayloads ==
    [error : {Null, <<>>, <<"boom">>}, content : {Null, <<>>, <<"X">>}]

\* A streaming backend sends the deltas of one reply in order, and between them
\* error frames and payloads that are not JSON.
Letters == <<"H", "e", "l", "o", "!">>

FrameKinds == {"text", "error", "bad"}

Frame(kind, k) ==
    [kind |-> kind,
     value |-> CASE kind = "text"  -> <<Letters[((k - 1) % Len(Letters)) + 1]>>
                 [] kind = "error" -> <<"boom">>
                 [] OTHER          -> <<>>]

\* the frames of a sequence of kinds: the k-th text frame carries the k-th letter
FramesOf(kinds) ==
    [i \in 1..Len(kinds) |->
        Frame(kinds[i], Cardinality({j \in 1..i : kinds[j] = "text"}))]

\* the wire form of one frame: "data: " + JSON + blank line
Encode(f) ==
    <<"data: ">>
    \o (CASE f.kind = "text"  -> <<"{text">> \o f.value \o <<"}">>
          [] f.kind = "error" -> <<"{error">> \o f.value \o <<"}">>
          [] OTHER            -> <<"[DONE]">>)
    \o <<NL, NL>>

RECURSIVE EncodeAll(_)
EncodeAll(fs) == IF fs = <<>> THEN <<>> ELSE Encode(Head(fs)) \o EncodeAll(Tail(fs))

\* the sequences of at most n frame kinds
KindSeqs(n) == UNION {[1..k -> FrameKinds] : k \in 0..n}

----------------------------------------------------------------------------
(* The stream reader's text processing (page.tsx 151-179) *)

\* chunk.split("\n\n"): scan from the left, cut at each pair of newlines found
RECURSIVE SplitFrom(_, _, _)
SplitFrom(s, start, i) ==
    IF i >= Len(s) THEN <<SubSeq(s, start, Len(s))>>
    ELSE IF s[i] = NL /\ s[i + 1] = NL
    THEN <<SubSeq(s, start, i - 1)>> \o SplitFrom(s, i + 2, i + 2)
    ELSE SplitFrom(s, start, i + 1)

Split(s) == SplitFrom(s, 1, 1)

\* .filter((line) => line.trim() !== "")
Lines(chunk) == SelectSeq(Split(chunk), LAMBDA line : Trim(line) # <<>>)

\* line.replace(/^data: /, "")
StripData(line) ==
    IF line # <<>> /\ Head(line) = "data: " THEN Tail(line) ELSE line

\* JSON.parse of a frame payload: ok with the object's type and value, or a SyntaxError
ParseJSON(s) ==
    IF Len(s) = 3 /\ s[1] \in {"{text", "{error"} /\ s[3] = "}"
       /\ s[2] \notin {"data: ", "{text", "{error", "}", "[DONE]", NL}
    THEN [ok |-> TRUE, type |-> IF s[1] = "{text" THEN "text" ELSE "error",
          value |-> <<s[2]>>]
    ELSE [ok |-> FALSE, type |-> "none", value |-> <<>>]

----------------------------------------------------------------------------
(* Messages *)

Message(id, role, content) == [id |-> id, role |-> role, content |-> content]

\* newMessages.find((msg) => msg.id === id): index of the first match, 0 if none
Find(msgs, id) ==
    LET hits == {i \in 1..Len(msgs) : msgs[i].id = id}
    IN  IF hits = {} THEN 0 ELSE CHOOSE i \in hits : \A j \in hits : i <= j

\* an updater that adds the message when it does not find it
SetContentByIdOrAppend(msgs, id, content) ==
    IF Find(msgs, id) = 0 THEN Append(msgs, Message(id, "assistant", content))
    ELSE [msgs EXCEPT ![Find(msgs, id)].content = content]

\* the updater of page.tsx 129-136 and 165-172: set the content of the message found by id
SetContentById(msgs, id, content) ==
    IF Find(msgs, id) = 0 THEN msgs
    ELSE [msgs EXCEPT ![Find(msgs, id)].content = content]

\* an updater that overwrites every assistant message
SetAssistantsFallback(msgs, content) ==
    [i \in 1..Len(msgs) |->
        IF msgs[i].role = "assistant" THEN [msgs[i] EXCEPT !.content = content] ELSE msgs[i]]

\* the updater of page.tsx 198-205: overwrite the last message if it is an assistant's
SetLastFallback(msgs, content) ==
    IF msgs # <<>> /\ msgs[Len(msgs)].role = "assistant"
    THEN [msgs EXCEPT ![Len(msgs)].content = content]
    ELSE msgs

----------------------------------------------------------------------------
(* Activations of handleSendMessage *)

\* locals of one activation; log is a history field.  A finished
\* activation keeps nothing: its locals are unreachable.
IdleHandler ==
    [pc      |-> "idle",   \* idle, fetch, text, json, stream, done
     aid     |-> 0,        \* assistantMessageId
     timer   |-> FALSE,    \* timeoutId still pending
     status  |-> 0,        \* response.status
     wire    |-> <<>>,     \* response body not yet delivered by the transport
     acc     |-> <<>>,     \* accumulatedContent
     log     |-> <<>>]     \* frames the read loop has processed

DoneHandler == [IdleHandler EXCEPT !.pc = "done"]

Active(h) == handlers[h].pc \in {"fetch", "text", "json", "stream"}

\* the slot of the next activation
NewHandler ==
    CHOOSE h \in Handlers :
        /\ handlers[h].pc = "idle"
        /\ \A k \in Handlers : handlers[k].pc = "idle" => h <= k

Err(name, message) == [name |-> name, message |-> message]

\* inner catch, page.tsx 184-192: an abort becomes the timeout error
InnerCatch(e) ==
    IF e.name = AbortErrorName THEN Err("Error", TimeoutMessage) ELSE e

\* outer catch and finally, page.tsx 193-209, run by activation h
Fail(h, msgs, e, index) ==
    /\ error' = e.message
    /\ messages' = SetLastFallback(msgs, getFallbackResponse(index))
    /\ isLoading' = FALSE
    /\ handlers' = [handlers EXCEPT ![h] = DoneHandler]

\* a normal completion that leaves the flag as it is
FinishKeepsLoading(h, msgs) ==
    /\ messages' = msgs
    /\ handlers' = [handlers EXCEPT ![h] = DoneHandler]
    /\ UNCHANGED <<isLoading, error>>

\* finally after a normal completion, page.tsx 206-209
Finish(h, msgs) ==
    /\ messages' = msgs
    /\ isLoading' = FALSE
    /\ handlers' = [handlers EXCEPT ![h] = DoneHandler]
    /\ UNCHANGED error

----------------------------------------------------------------------------
(* The read loop's body (page.tsx 154-179) on the loop state                *)
(* st = [msgs, acc, log, thrown]                                            *)

\* the delta written instead of the accumulator
AccumulateDelta(acc, value) == value

\* page.tsx 162: accumulatedContent += parsedChunk.value
Accumulate(acc, value) == acc \o value

\* try block, page.tsx 155-175
TryFrame(st, line, aid) ==
    LET trimmedLine == Trim(StripData(line))
        parsedChunk == ParseJSON(trimmedLine)
        acc2 == Accumulate(st.acc, parsedChunk.value)
    IN  IF trimmedLine = <<>> THEN st
        ELSE IF ~parsedChunk.ok
        THEN [st EXCEPT !.thrown = SyntaxErrorMessage,
                        !.log = Append(@, [kind |-> "bad", value |-> <<>>])]
        ELSE IF parsedChunk.type = "text"
        THEN [st EXCEPT !.acc = acc2,
                        !.msgs = SetContentById(@, aid, acc2),
                        !.log = Append(@, [kind |-> "text", value |-> parsedChunk.value])]
        ELSE IF parsedChunk.type = "error"
        THEN [st EXCEPT !.thrown = parsedChunk.value,
                        !.log = Append(@, [kind |-> "error", value |-> parsedChunk.value])]
        ELSE st

\* a catch block that lets the exception leave the loop
CatchFrameRethrow(st) == st

\* catch block, page.tsx 176-178: log and go on with the next line
CatchFrame(st) == [st EXCEPT !.thrown = Null]

RECURSIVE ForLines(_, _, _)
ForLines(st, lines, aid) ==
    IF lines = <<>> \/ st.thrown # Null THEN st
    ELSE ForLines(CatchFrame(TryFrame(st, Head(lines), aid)), Tail(lines), aid)

----------------------------------------------------------------------------
(* The Completion Proxy (route.ts): fixed data, requests, upstream replies *)

\* MODEL_MAP (route.ts 4-7): logical name -> upstream model id
MODEL_MAP ==
    (<<"mistral">> :> <<"mistralai/mistral-7b-instruct">>)
    @@ (<<"base-free">> :> <<"01-ai/yi-34b-chat">>)

\* property names every object literal inherits from Object.prototype
InheritedKeys == { <<"constructor">> }

\* MODEL_MAP[model] (route.ts 67): an own property, an inherited one (a function
\* value, which JSON.stringify leaves out of the upstream request), or undefined
LookupModel(model) ==
    IF model \in DOMAIN MODEL_MAP THEN MODEL_MAP[model]
    ELSE IF model \in InheritedKeys THEN <<"function">>
    ELSE Null

NoKeyError == <<"API klyuch OpenRouter ne nastroen">>

BadRequestError == <<"Nevernyi format zaprosa">>

BadModelError == <<"Ukazana nevernaya model">>

DegradedText == <<"Izvinite, v dannyi moment ya ne mogu podklyuchitsya k API.">>

UnexpectedError == <<"Proizoshla nepredvidennaya oshibka">>

ProcessingErrorText == <<"Proizoshla oshibka pri obrabotke zaprosa.">>

\* a Response of the proxy: status and the fields of its JSON body (Null: no field)
Reply(status, err, content) == [status |-> status, error |-> err, content |-> content]

NoReply == Reply(0, Null, Null)

\* route.ts 50-53
NoKeyReply == Reply(500, NoKeyError, Null)

\* route.ts 60-63
BadRequestReply == Reply(400, BadRequestError, Null)

\* route.ts 70-73
BadModelReply == Reply(400, BadModelError, Null)

\* the upstream failure handed on as a gateway error
FallbackReplyBadGateway == Reply(502, DegradedText, Null)

\* route.ts 121-130: the canned reply after a failed upstream call
FallbackReply == Reply(200, Null, DegradedText)

\* route.ts 131-140: the top-level catch
TopCatchReply == Reply(200, UnexpectedError, ProcessingErrorText)

\* values of process.env.API_KEY: unset, blank, set
ApiKeys == { Null, <<" ">>, <<"sk">> }

\* a test for a missing key that lets a blank key pass
KeyMissingNoTrim(key) == ~Truthy(key)

\* route.ts 48: !apiKey || apiKey.trim() === ""
KeyMissing(key) == ~Truthy(key) \/ Trim(key) = <<>>

\* the messages field of a request body: no field, a string, an array of
\* messages, an array holding null
MessagesValues == {"undefined", "string", "array", "arrayOfNull"}

IsArray(m) == m \in {"array", "arrayOfNull"}

\* the model field: no field, empty, a known name, an unknown name, an inherited key
ModelValues == { Null, <<>>, <<"mistral">>, <<"gpt">>, <<"constructor">> }

\* a request body: text that is not JSON, the JSON value null, or a JSON object
Body(syntax, msgs, model) == [syntax |-> syntax, messages |-> msgs, model |-> model]

RequestBodies ==
    { Body("invalid", "undefined", Null), Body("null", "undefined", Null) }
    \cup { Body("object", m, n) : m \in MessagesValues, n \in ModelValues }

\* a controller that asks for a model the proxy does not know
ControllerRequestUnknownModel == Body("object", "array", <<"gpt">>)

\* the body handleSendMessage posts (page.tsx 103-106)
ControllerRequest == Body("object", "array", <<"mistral">>)

\* the upstream reply: its status, and its body as text that is not JSON, the
\* JSON value null, or an object with or without choices[0].message(.content)
UpstreamStatuses == {200, 429}

UpstreamBodies ==
    { [syntax |-> "invalid", choices |-> "undefined", content |-> Null],
      [syntax |-> "null", choices |-> "undefined", content |-> Null] }
    \cup { [syntax |-> "object", choices |-> c, content |-> Null] :
              c \in {"undefined", "empty", "noMessage"} }
    \cup { [syntax |-> "object", choices |-> "message", content |-> t] :
              t \in {Null, <<>>, <<"Hi">>} }

\* locals of one activation of POST; upstream and up are history fields
IdleProxy ==
    [pc       |-> "idle",     \* idle, body, fetch, json, text, done
     body     |-> Body("invalid", "undefined", Null),   \* the request body
     upstream |-> <<>>,       \* the upstream requests made: [model, stream]
     up       |-> "none",     \* how the upstream call ended
     reply    |-> NoReply]    \* the Response returned

Respond(p, reply, up) ==
    proxy' = [proxy EXCEPT ![p].pc = "done", ![p].reply = reply, ![p].up = up]

----------------------------------------------------------------------------
(* Initial state: ChatPage after its first render (page.tsx 39-42) *)

Init ==
    /\ messages = <<>>
    /\ input = <<>>
    /\ isLoading = FALSE
    /\ error = Null
    /\ nextId = 1
    /\ sendsLeft = MaxSends
    /\ handlers = [h \in Handlers |-> IdleHandler]
    /\ framesLeft = MaxFrames
    /\ ev = "init"
    /\ API_KEY = Null
    /\ proxy = [p \in Handlers |-> IdleProxy]

\* the same page, for one send against a backend that streams more frames
StreamInit ==
    /\ messages = <<>>
    /\ input = <<>>
    /\ isLoading = FALSE
    /\ error = Null
    /\ nextId = 1
    /\ sendsLeft = 1
    /\ handlers = [h \in Handlers |-> IdleHandler]
    /\ framesLeft = MaxStreamFrames
    /\ ev = "init"
    /\ API_KEY = Null
    /\ proxy = [p \in Handlers |-> IdleProxy]

\* the server alone, with any configuration, before its first request
ProxyInit ==
    /\ messages = <<>>
    /\ input = <<>>
    /\ isLoading = FALSE
    /\ error = Null
    /\ nextId = 1
    /\ sendsLeft = 0
    /\ handlers = [h \in Handlers |-> IdleHandler]
    /\ framesLeft = 0
    /\ ev = "init"
    /\ API_KEY \in ApiKeys
    /\ proxy = [p \in Handlers |-> IdleProxy]

\* the page and its server, with any configuration, for one send
ChatInit ==
    /\ messages = <<>>
    /\ input = <<>>
    /\ isLoading = FALSE
    /\ error = Null
    /\ nextId = 1
    /\ sendsLeft = 1
    /\ handlers = [h \in Handlers |-> IdleHandler]
    /\ framesLeft = 0
    /\ ev = "init"
    /\ API_KEY \in ApiKeys
    /\ proxy = [p \in Handlers |-> IdleProxy]

----------------------------------------------------------------------------
(* User operations *)

\* the guard without trim(): a whitespace-only input passes
SendRejectedNoTrim(inp, loading) == inp = <<>> \/ loading

\* the guard without the isLoading test
SendRejectedNoLoading(inp, loading) == Trim(inp) = <<>>

\* page.tsx 75: if (!input.trim() || isLoading) return
SendRejected(inp, loading) == Trim(inp) = <<>> \/ loading

\* the placeholder appended before the user message
AppendOnSendSwapped(msgs, inp, uid, aid) ==
    msgs \o << Message(aid, "assistant", <<>>), Message(uid, "user", inp) >>

\* the user message built from the trimmed input
AppendOnSendTrimmed(msgs, inp, uid, aid) ==
    msgs \o << Message(uid, "user", Trim(inp)), Message(aid, "assistant", <<>>) >>

\* page.tsx 77-91: the two setMessages appends of an accepted send
AppendOnSend(msgs, inp, uid, aid) ==
    msgs \o << Message(uid, "user", inp), Message(aid, "assistant", <<>>) >>

\* handleSendMessage up to its first await (page.tsx 72-108)
Send ==
    \/ /\ SendRejected(input, isLoading)
       /\ ev' = "sendIgnored"
       /\ UNCHANGED serverVars
       /\ UNCHANGED <<messages, input, isLoading, error, nextId, sendsLeft, handlers, framesLeft>>
    \/ /\ ~SendRejected(input, isLoading)
       /\ sendsLeft > 0
       /\ messages' = AppendOnSend(messages, input, nextId, nextId + 1)
       /\ input' = <<>>
       /\ isLoading' = TRUE
       /\ error' = Null
       /\ nextId' = nextId + 2
       /\ sendsLeft' = sendsLeft - 1
       /\ handlers' = [handlers EXCEPT ![NewHandler] =
             [IdleHandler EXCEPT !.pc = "fetch", !.aid = nextId + 1, !.timer = TRUE]]
       /\ ev' = "send"
       /\ UNCHANGED serverVars
       /\ UNCHANGED framesLeft

\* a clear that also ends the loading state
ClearResetsLoading ==
    /\ messages' = <<>>
    /\ error' = Null
    /\ isLoading' = FALSE
    /\ ev' = "clear"
    /\ UNCHANGED serverVars
    /\ UNCHANGED <<input, nextId, sendsLeft, handlers, framesLeft>>

\* handleClearChat (page.tsx 59-63)
Clear ==
    /\ messages' = <<>>
    /\ error' = Null
    /\ ev' = "clear"
    /\ UNCHANGED serverVars
    /\ UNCHANGED <<input, isLoading, nextId, sendsLeft, handlers, framesLeft>>

\* onChange of the entry field, which is disabled while loading (page.tsx 467-468)
ChangeInput(t) ==
    /\ ~isLoading
    /\ input' = t
    /\ ev' = "input"
    /\ UNCHANGED serverVars
    /\ UNCHANGED <<messages, isLoading, error, nextId, sendsLeft, handlers, framesLeft>>

\* handlePromptClick, offered while the conversation is empty (page.tsx 212-215, 261)
PromptClick(t) ==
    /\ messages = <<>>
    /\ input' = t
    /\ ev' = "input"
    /\ UNCHANGED serverVars
    /\ UNCHANGED <<messages, isLoading, error, nextId, sendsLeft, handlers, framesLeft>>

----------------------------------------------------------------------------
(* The asynchronous part of handleSendMessage *)

IsOk(status) == 200 <= status /\ status <= 299

IsJson(ctype) == ctype = "application/json"

IsEventStream(ctype) == ctype = "text/event-stream"

\* the default taken on the wrong branch
JsonContentInverted(data) == IF Truthy(data.content) THEN NoResponseText ELSE data.content

\* page.tsx 133: data.content || "Ne udalos ..."
JsonContent(data) == IF Truthy(data.content) THEN data.content ELSE NoResponseText

\* the error field ignored when the body also has content
JsonFailsUnlessContent(data) == Truthy(data.error) /\ ~Truthy(data.content)

\* page.tsx 124: if (data.error)
JsonFails(data) == Truthy(data.error)

\* The timer callback of page.tsx 95 runs 60 s after the dispatch unless
\* clearTimeout (page.tsx 110) came first: controller.abort() rejects the
\* pending fetch with an AbortError.
Timeout(h) ==
    /\ handlers[h].timer
    /\ handlers[h].pc = "fetch"
    /\ ev' = "async"
    /\ UNCHANGED serverVars
    /\ UNCHANGED <<input, nextId, sendsLeft, framesLeft>>
    /\ \E index \in FallbackIndexes :
          Fail(h, messages, InnerCatch(Err(AbortErrorName, <<"aborted">>)), index)

\* fetch rejects: the network failed before any response (page.tsx 98, 184-205)
FetchRejects(h) ==
    /\ handlers[h].pc = "fetch"
    /\ ev' = "async"
    /\ UNCHANGED serverVars
    /\ UNCHANGED <<input, nextId, sendsLeft, framesLeft>>
    /\ \E index \in FallbackIndexes :
          Fail(h, messages,
               InnerCatch(Err("TypeError", NetworkErrorMessage)), index)

\* fetch resolves with the response headers (page.tsx 110-142, 181-183)
HeadersArrive(h, r) ==
    /\ handlers[h].pc = "fetch"
    /\ ev' = "async"
    /\ UNCHANGED serverVars
    /\ UNCHANGED <<input, nextId, sendsLeft>>
    /\ LET hrec == [handlers[h] EXCEPT !.timer = FALSE, !.status = r.status]
       IN  IF ~IsOk(r.status)
           THEN /\ handlers' = [handlers EXCEPT ![h] = [hrec EXCEPT !.pc = "text"]]
                /\ UNCHANGED <<messages, isLoading, error, framesLeft>>
           ELSE IF IsJson(r.ctype)
           THEN /\ handlers' = [handlers EXCEPT ![h] = [hrec EXCEPT !.pc = "json"]]
                /\ UNCHANGED <<messages, isLoading, error, framesLeft>>
           ELSE IF IsEventStream(r.ctype)
           THEN \/ \E kinds \in KindSeqs(framesLeft) :
                      /\ handlers' = [handlers EXCEPT ![h] =
                            [hrec EXCEPT !.pc = "stream",
                                         !.wire = EncodeAll(FramesOf(kinds))]]
                      /\ framesLeft' = framesLeft - Len(kinds)
                      /\ UNCHANGED <<messages, isLoading, error>>
                \/ /\ \E index \in FallbackIndexes :
                         Fail(h, messages,
                              InnerCatch(Err("Error", NoBodyMessage)), index)
                   /\ UNCHANGED framesLeft
           ELSE /\ \E index \in FallbackIndexes :
                      Fail(h, messages,
                           InnerCatch(Err("Error", UnexpectedFormatMessage)), index)
                /\ UNCHANGED framesLeft

\* response.text() of a non-success response resolves (page.tsx 112-115)
TextArrives(h, text) ==
    /\ handlers[h].pc = "text"
    /\ ev' = "async"
    /\ UNCHANGED serverVars
    /\ UNCHANGED <<input, nextId, sendsLeft, framesLeft>>
    /\ \E index \in FallbackIndexes :
          Fail(h, messages,
               InnerCatch(Err("Error", ServerErrorMessage(handlers[h].status, text))),
               index)

\* response.json() resolves with the parsed body (page.tsx 122-136)
JsonArrives(h, data) ==
    /\ handlers[h].pc = "json"
    /\ ev' = "async"
    /\ UNCHANGED serverVars
    /\ UNCHANGED <<input, nextId, sendsLeft, framesLeft>>
    /\ LET hrec == handlers[h]
       IN  IF JsonFails(data)
           THEN \E index \in FallbackIndexes :
                   Fail(h, messages, InnerCatch(Err("Error", data.error)), index)
           ELSE Finish(h, SetContentById(messages, hrec.aid, JsonContent(data)))

\* response.json() rejects: the body is not JSON (page.tsx 122)
JsonMalformed(h) ==
    /\ handlers[h].pc = "json"
    /\ ev' = "async"
    /\ UNCHANGED serverVars
    /\ UNCHANGED <<input, nextId, sendsLeft, framesLeft>>
    /\ \E index \in FallbackIndexes :
          Fail(h, messages,
               InnerCatch(Err("SyntaxError", SyntaxErrorMessage)), index)

\* reader.read() resolves with the next n symbols of the body (page.tsx 148-180)
ChunkArrives(h, n) ==
    /\ handlers[h].pc = "stream"
    /\ n \in 1..Len(handlers[h].wire)
    /\ ev' = "chunk"
    /\ UNCHANGED serverVars
    /\ UNCHANGED <<input, nextId, sendsLeft, framesLeft>>
    /\ LET hrec  == handlers[h]
           chunk == SubSeq(hrec.wire, 1, n)
           st    == ForLines([msgs |-> messages, acc |-> hrec.acc,
                              log |-> hrec.log, thrown |-> Null],
                             Lines(chunk), hrec.aid)
           hrec2 == [hrec EXCEPT !.wire = SubSeq(hrec.wire, n + 1, Len(hrec.wire)),
                                 !.acc = st.acc, !.log = st.log]
       IN  IF st.thrown # Null
           THEN \E index \in FallbackIndexes :
                   Fail(h, st.msgs, InnerCatch(Err("Error", st.thrown)), index)
           ELSE /\ messages' = st.msgs
                /\ handlers' = [handlers EXCEPT ![h] = hrec2]
                /\ UNCHANGED <<isLoading, error>>

\* reader.read() resolves with done: the transport closed the body (page.tsx 149)
StreamEnds(h) ==
    /\ handlers[h].pc = "stream"
    /\ handlers[h].wire = <<>>
    /\ ev' = "async"
    /\ UNCHANGED serverVars
    /\ UNCHANGED <<input, nextId, sendsLeft, framesLeft>>
    /\ Finish(h, messages)

\* a body read rejects: the connection broke (page.tsx 113, 122, 148)
BodyFails(h) ==
    /\ handlers[h].pc \in {"text", "json", "stream"}
    /\ ev' = "async"
    /\ UNCHANGED serverVars
    /\ UNCHANGED <<input, nextId, sendsLeft, framesLeft>>
    /\ \E index \in FallbackIndexes :
          Fail(h, messages,
               InnerCatch(Err("TypeError", NetworkErrorMessage)), index)

----------------------------------------------------------------------------

\* the continuations of the pending awaits and the timer callback
Async ==
    \/ \E h \in Handlers : Timeout(h)
    \/ \E h \in Handlers : FetchRejects(h)
    \/ \E h \in Handlers, r \in Responses : HeadersArrive(h, r)
    \/ \E h \in Handlers, text \in ErrorBodies : TextArrives(h, text)
    \/ \E h \in Handlers, data \in JsonPayloads : JsonArrives(h, data)
    \/ \E h \in Handlers : JsonMalformed(h)
    \/ \E h \in Handlers : \E n \in 1..Len(handlers[h].wire) : ChunkArrives(h, n)
    \/ \E h \in Handlers : StreamEnds(h)
    \/ \E h \in Handlers : BodyFails(h)

Next ==
    \/ Send
    \/ Clear
    \/ \E t \in InputTexts : ChangeInput(t)
    \/ \E t \in PromptTexts : PromptClick(t)
    \/ Async

Spec == Init /\ [][Next]_vars

\* one send typed by the user (the suggested prompts are not used), answered by
\* a backend that may stream up to MaxStreamFrames frames
StreamNext ==
    \/ Send
    \/ Clear
    \/ \E t \in InputTexts : ChangeInput(t)
    \/ Async

StreamSpec == StreamInit /\ [][StreamNext]_vars

----------------------------------------------------------------------------
(* POST of route.ts, one action per await segment *)

\* route.ts 44: process.env.API_KEY || ""
apiKey == IF Truthy(API_KEY) THEN API_KEY ELSE <<>>

\* POST up to its first await (route.ts 42-57): the credential check
POST(p, body) ==
    /\ proxy[p].pc = "idle"
    /\ IF KeyMissing(apiKey)
       THEN proxy' = [proxy EXCEPT ![p].pc = "done", ![p].body = body,
                                   ![p].reply = NoKeyReply]
       ELSE proxy' = [proxy EXCEPT ![p].pc = "body", ![p].body = body]
    /\ UNCHANGED <<API_KEY, pageVars>>

\* req.json() settles: destructuring, validation, model lookup, messages.map
\* and the dispatch of the upstream fetch (route.ts 57-100)
BodyParsed(p) ==
    /\ proxy[p].pc = "body"
    /\ LET body    == proxy[p].body
           modelId == LookupModel(body.model)
       IN  IF body.syntax # "object"
           THEN Respond(p, TopCatchReply, "none")
           ELSE IF body.messages = "undefined" \/ ~IsArray(body.messages)
                   \/ ~Truthy(body.model)
           THEN Respond(p, BadRequestReply, "none")
           ELSE IF ~Truthy(modelId)
           THEN Respond(p, BadModelReply, "none")
           ELSE IF body.messages = "arrayOfNull"
           THEN Respond(p, TopCatchReply, "none")
           ELSE proxy' = [proxy EXCEPT
                    ![p].pc = "fetch",
                    ![p].upstream = Append(@, [model |-> modelId, stream |-> FALSE])]
    /\ UNCHANGED <<API_KEY, pageVars>>

\* the upstream fetch rejects (route.ts 115-130)
UpstreamRejects(p) ==
    /\ proxy[p].pc = "fetch"
    /\ Respond(p, FallbackReply, "reject")
    /\ UNCHANGED <<API_KEY, pageVars>>

\* the upstream fetch resolves with a status (route.ts 102, 112-113)
UpstreamResponds(p, status) ==
    /\ proxy[p].pc = "fetch"
    /\ proxy' = [proxy EXCEPT ![p].pc = IF IsOk(status) THEN "json" ELSE "text"]
    /\ UNCHANGED <<API_KEY, pageVars>>

\* the completion ignored: the canned reply whatever the upstream returned
CompletionReplyCanned(data) == FallbackReply

\* route.ts 107-110: the reply built from data.choices[0].message.content
CompletionReply(data) == Reply(200, Null, data.content)

\* nonStreamingResponse.json() settles (route.ts 103-111, 115-130)
UpstreamJson(p, data) ==
    /\ proxy[p].pc = "json"
    /\ IF data.syntax # "object"
       THEN Respond(p, FallbackReply, data.syntax)
       ELSE IF data.choices = "message"
       THEN Respond(p, CompletionReply(data), "message")
       ELSE Respond(p, FallbackReply, "noChoice")
    /\ UNCHANGED <<API_KEY, pageVars>>

\* nonStreamingResponse.text() of a non-2xx reply settles (route.ts 113-130)
UpstreamText(p) ==
    /\ proxy[p].pc = "text"
    /\ Respond(p, FallbackReply, "status")
    /\ UNCHANGED <<API_KEY, pageVars>>

\* the steps of the proxy after it has received a request
ProxySteps ==
    \/ \E p \in Handlers : BodyParsed(p)
    \/ \E p \in Handlers : UpstreamRejects(p)
    \/ \E p \in Handlers, status \in UpstreamStatuses : UpstreamResponds(p, status)
    \/ \E p \in Handlers, data \in UpstreamBodies : UpstreamJson(p, data)
    \/ \E p \in Handlers : UpstreamText(p)

\* the proxy called by any client
ProxyNext ==
    \/ \E p \in Handlers, body \in RequestBodies : POST(p, body)
    \/ ProxySteps

ProxySpec == ProxyInit /\ [][ProxyNext]_vars

----------------------------------------------------------------------------
(* The page served by the proxy: request h of the page is request h of POST *)

\* the request of activation h reaches the server
RequestArrives(h) ==
    /\ handlers[h].pc = "fetch"
    /\ POST(h, ControllerRequest)

\* the text of a reply's JSON body, one symbol
ReplyText(reply) ==
    IF reply.error = NoKeyError THEN <<"{error: API klyuch OpenRouter ne nastroen}">>
    ELSE IF reply.error # Null THEN <<"{error}">>
    ELSE <<"{content}">>

\* the proxy's Response reaches the page: its status line and headers
ReplyHeadersArrive(h) ==
    /\ proxy[h].pc = "done"
    /\ HeadersArrive(h, [status |-> proxy[h].reply.status, ctype |-> "application/json"])

\* ... and its body, read as JSON or as text
ReplyJsonArrives(h) ==
    /\ proxy[h].pc = "done"
    /\ JsonArrives(h, [error |-> proxy[h].reply.error, content |-> proxy[h].reply.content])

ReplyTextArrives(h) ==
    /\ proxy[h].pc = "done"
    /\ TextArrives(h, ReplyText(proxy[h].reply))

ChatNext ==
    \/ Send
    \/ Clear
    \/ \E t \in InputTexts : ChangeInput(t)
    \/ \E h \in Handlers : Timeout(h)
    \/ \E h \in Handlers : FetchRejects(h)
    \/ \E h \in Handlers : BodyFails(h)
    \/ \E h \in Handlers : RequestArrives(h)
    \/ ProxySteps
    \/ \E h \in Handlers : ReplyHeadersArrive(h)
    \/ \E h \in Handlers : ReplyJsonArrives(h)
    \/ \E h \in Handlers : ReplyTextArrives(h)

ChatSpec == ChatInit /\ [][ChatNext]_vars

----------------------------------------------------------------------------
(* Claims *)

ActiveHandlers == {h \in Handlers : Active(h)}

\* the content of the message with this id, Null when it is not in the sequence
ContentOf(msgs, id) ==
    IF Find(msgs, id) = 0 THEN Null ELSE msgs[Find(msgs, id)].content

\* C1: a send with empty or whitespace-only input, or while isLoading is true,
\* changes nothing: messages, isLoading, lastError and the input field stay as
\* they are, and no request is dispatched (no activation starts, no id is used).
C1_RejectedSendIsNoOp ==
    [][(Send /\ (Trim(input) = <<>> \/ isLoading))
          => UNCHANGED <<messages, isLoading, error, input, handlers, nextId, sendsLeft>>]_vars

\* a send was ignored only because a request is in flight: the input has text
C1_Witness ==
    /\ ev = "sendIgnored"
    /\ isLoading
    /\ Trim(input) # <<>>
    /\ ActiveHandlers # {}

\* C2: an accepted send (non-blank input, isLoading false) leaves, before any
\* response is processed, the old messages followed by exactly two new ones, the
\* user message with the input text as typed and an assistant message with empty
\* content and a fresh id; the input is empty, isLoading true, lastError null, and
\* the request of that assistant message is waiting for its response.
C2_AcceptedSendAppendsTwo ==
    [][(Send /\ Trim(input) # <<>> /\ ~isLoading)
          => LET n == Len(messages) IN
             /\ Len(messages') = n + 2
             /\ SubSeq(messages', 1, n) = messages
             /\ messages'[n + 1].role = "user"
             /\ messages'[n + 1].content = input
             /\ messages'[n + 2].role = "assistant"
             /\ messages'[n + 2].content = <<>>
             /\ messages'[n + 1].id # messages'[n + 2].id
             /\ \A i \in 1..n : messages[i].id \notin {messages'[n + 1].id, messages'[n + 2].id}
             /\ input' = <<>>
             /\ isLoading'
             /\ error' = Null
             /\ \E h \in Handlers :
                   /\ handlers[h].pc = "idle"
                   /\ handlers'[h].pc = "fetch"
                   /\ handlers'[h].aid = messages'[n + 2].id]_vars

\* a second send has just appended its two messages behind the first turn
C2_Witness ==
    /\ ev = "send"
    /\ Len(messages) = 4
    /\ messages[3].content = <<" ", "a">>
    /\ messages[4].content = <<>>
    /\ isLoading

\* C3: at most one request is in flight at any time, and a request is in flight
\* only while isLoading is true, so a second send dispatches only after the
\* previous one has cleared isLoading.
C3_SingleFlight ==
    /\ Cardinality(ActiveHandlers) <= 1
    /\ ActiveHandlers # {} => isLoading

\* the second request is in flight after the first activation has finished
C3_Witness ==
    /\ \E h \in Handlers : handlers[h].pc = "done"
    /\ \E h \in Handlers : handlers[h].pc \in {"json", "stream"}
    /\ messages = <<>>

\* the values of the text frames of a log, concatenated in arrival order
RECURSIVE ConcatTexts(_)
ConcatTexts(log) ==
    IF log = <<>> THEN <<>>
    ELSE (IF Head(log).kind = "text" THEN Head(log).value ELSE <<>>)
         \o ConcatTexts(Tail(log))

LogKinds(log) == [i \in 1..Len(log) |-> log[i].kind]

\* C4: on the event-stream path an error frame with value v makes the send fail:
\* once an activation has processed such a frame it has finished, lastError is v
\* and its assistant message holds one of the fallback strings.
C4_ErrorFrameFailsSend ==
    \A h \in Handlers : \A i \in 1..Len(handlers[h].log) :
        handlers[h].log[i].kind = "error"
        => /\ handlers[h].pc = "done"
           /\ error = handlers[h].log[i].value
           /\ ContentOf(messages, handlers[h].aid) \in FallbackTexts \cup {Null}

\* C5: at every point before the response has completed (waiting for the headers,
\* reading the JSON or error body, between two reads of the stream) the 60 s timer
\* is still pending, so a deadline that elapses there aborts the request.
C5_DeadlineCoversResponse ==
    \A h \in Handlers : Active(h) => handlers[h].timer

\* C6: every accepted send eventually reaches isLoading = false, whatever the
\* transport does, provided only that a pending timer eventually fires.
C6_LoadingEnds == isLoading ~> ~isLoading

\* C7: when no send is in progress, every assistant message still in the
\* sequence has non-empty content.
C7_NoEmptyBubble ==
    ~isLoading
    => \A i \in 1..Len(messages) :
          messages[i].role = "assistant" => messages[i].content # <<>>

\* C8: while a stream is read, the accumulator and the content of the in-progress
\* assistant message (while it is in the sequence) equal the concatenation, in
\* arrival order, of the values of all text frames parsed so far in this request.
C8_ContentIsConcatenation ==
    \A h \in Handlers :
        handlers[h].pc = "stream"
        => /\ handlers[h].acc = ConcatTexts(handlers[h].log)
           /\ ContentOf(messages, handlers[h].aid) \in {Null, ConcatTexts(handlers[h].log)}

\* two text frames have been parsed and the message shows both, in order
C8_Witness ==
    \E h \in Handlers :
        /\ handlers[h].pc = "stream"
        /\ LogKinds(handlers[h].log) = <<"text", "text">>
        /\ ContentOf(messages, handlers[h].aid) = <<"H", "e">>

\* the payloads of the lines of a chunk, as the loop body sees them
Payloads(chunk) ==
    LET lines == Lines(chunk)
    IN  [i \in 1..Len(lines) |-> Trim(StripData(lines[i]))]

HasBadFrame(chunk) ==
    LET ps == Payloads(chunk)
    IN  \E i \in 1..Len(ps) : ps[i] # <<>> /\ ~ParseJSON(ps[i]).ok

RECURSIVE TextOfPayloads(_)
TextOfPayloads(ps) ==
    IF ps = <<>> THEN <<>>
    ELSE LET p == ParseJSON(Head(ps))
         IN  (IF p.ok /\ p.type = "text" THEN p.value ELSE <<>>)
             \o TextOfPayloads(Tail(ps))

\* C9: a chunk that holds a frame whose payload is not valid JSON does not fail
\* the send: the activation keeps reading, lastError stays null, the text
\* accumulated so far is kept and the values of all valid text frames of the
\* chunk, before and after the bad one, are appended and shown.
C9_BadFrameSkipped ==
    [][\A h \in Handlers :
          handlers[h].pc = "stream" /\ ev' = "chunk" /\ handlers'[h] # handlers[h]
          => \A n \in 1..Len(handlers[h].wire) :
                (/\ handlers'[h].pc = "stream"
                       => Len(handlers'[h].wire) = Len(handlers[h].wire) - n
                 /\ HasBadFrame(SubSeq(handlers[h].wire, 1, n))
                 /\ ChunkArrives(h, n))
                => LET text == TextOfPayloads(Payloads(SubSeq(handlers[h].wire, 1, n)))
                       old  == ContentOf(messages, handlers[h].aid)
                   IN  /\ handlers'[h].pc = "stream"
                       /\ error' = Null
                       /\ isLoading'
                       /\ handlers'[h].acc = handlers[h].acc \o text
                       /\ ContentOf(messages', handlers[h].aid)
                             = IF old = Null \/ text = <<>> THEN old
                               ELSE handlers[h].acc \o text]_vars

\* a bad frame came between two text frames and both texts are shown
C9_Witness ==
    \E h \in Handlers :
        /\ handlers[h].pc = "stream"
        /\ LogKinds(handlers[h].log) = <<"text", "bad", "text">>
        /\ ContentOf(messages, handlers[h].aid) = <<"H", "e">>
        /\ error = Null

\* C10 as stated: on the JSON path a payload with a content field X and no error
\* field sets the content of the in-progress assistant message, empty until
\* then, to X in the step that ends the send, and lastError stays null.
C10_JsonSetsContent ==
    [][\A h \in Handlers : \A d \in JsonPayloads :
          (JsonArrives(h, d) /\ d.error = Null /\ d.content # Null
             /\ Find(messages, handlers[h].aid) # 0)
          => /\ ContentOf(messages, handlers[h].aid) = <<>>
             /\ ContentOf(messages', handlers[h].aid) = d.content
             /\ handlers'[h].pc = "done"
             /\ error' = Null]_vars

\* C10 amended: the same for a non-empty X
C10_JsonSetsNonEmptyContent ==
    [][\A h \in Handlers : \A d \in JsonPayloads :
          (JsonArrives(h, d) /\ d.error = Null /\ d.content \notin {Null, <<>>}
             /\ Find(messages, handlers[h].aid) # 0)
          => /\ ContentOf(messages, handlers[h].aid) = <<>>
             /\ ContentOf(messages', handlers[h].aid) = d.content
             /\ handlers'[h].pc = "done"
             /\ error' = Null]_vars

\* a JSON response has ended the send with its content in the assistant message
C10_Witness ==
    /\ ev = "async"
    /\ ~isLoading
    /\ error = Null
    /\ Len(messages) = 2
    /\ messages[2].content = <<"X">>

\* C11 as stated: a JSON body that carries an error field, with or without a
\* content field, ends the send as a failure: lastError is the error field and
\* the assistant message, while in the sequence, holds a fallback string.
C11_JsonErrorFailsSend ==
    [][\A h \in Handlers : \A d \in JsonPayloads :
          (JsonArrives(h, d) /\ d.error # Null)
          => /\ error' = d.error
             /\ handlers'[h].pc = "done"
             /\ ContentOf(messages', handlers[h].aid) \in FallbackTexts \cup {Null}
             /\ Find(messages, handlers[h].aid) # 0
                   => ContentOf(messages', handlers[h].aid) \in FallbackTexts]_vars

\* C11 amended: the same for an error field that is a non-empty text
C11_JsonNonEmptyErrorFailsSend ==
    [][\A h \in Handlers : \A d \in JsonPayloads :
          (JsonArrives(h, d) /\ d.error \notin {Null, <<>>})
          => /\ error' = d.error
             /\ handlers'[h].pc = "done"
             /\ ContentOf(messages', handlers[h].aid) \in FallbackTexts \cup {Null}
             /\ Find(messages, handlers[h].aid) # 0
                   => ContentOf(messages', handlers[h].aid) \in FallbackTexts]_vars

\* a JSON error has ended the send: the banner shows it, the bubble a fallback
C11_Witness ==
    /\ ev = "async"
    /\ ~isLoading
    /\ error = <<"boom">>
    /\ Len(messages) = 2
    /\ messages[2].content \in FallbackTexts

\* C12: in every step in which a send fails (its activation ends with lastError
\* set), whatever happened before, a clear included, the assistant message of
\* that send is in the sequence and holds one of the four fallback strings.
C12_FailureShowsFallback ==
    [][\A h \in Handlers :
          (Active(h) /\ handlers'[h].pc = "done" /\ error' # Null)
          => ContentOf(messages', handlers[h].aid) \in FallbackTexts]_vars

\* C13: every send that ends, by success, failure or timeout, clears isLoading
\* in the step that ends it and in no other: isLoading falls only in such a
\* step, a finished activation never acts again, and the content of a message
\* whose send is over never changes.
C13_LoadingClearedOnce ==
    [][/\ \A h \in Handlers :
             /\ (Active(h) /\ handlers'[h].pc = "done") => (isLoading /\ ~isLoading')
             /\ handlers[h].pc = "done" => handlers'[h] = handlers[h]
       /\ (isLoading /\ ~isLoading')
             => \E h \in Handlers : Active(h) /\ handlers'[h].pc = "done"
       /\ \A i \in 1..Len(messages) :
             (\A h \in Handlers : Active(h) => handlers[h].aid # messages[i].id)
             => ContentOf(messages', messages[i].id) \in {Null, messages[i].content}]_vars

\* a send has ended by timeout with the flag cleared while its message is shown
C13_Witness ==
    /\ ev = "async"
    /\ ~isLoading
    /\ error = TimeoutMessage
    /\ Len(messages) = 2
    /\ \E h \in Handlers : handlers[h].pc = "done"

\* C14: the steps of one send come in this order: the user message and then the
\* empty placeholder are appended (isLoading set); the placeholder's content
\* stays empty until the body is read; on the stream path it is updated while
\* the stream is read, on the other paths it is set once, in the step that ends
\* the send; that last step clears isLoading, and nothing of the send follows.
C14_SendOrder ==
    [][\A h \in Handlers :
          LET aid == handlers[h].aid
              old == ContentOf(messages, aid)
              new == ContentOf(messages', aid)
              n   == Len(messages)
          IN  /\ (handlers[h].pc = "idle" /\ handlers'[h].pc # "idle")
                    => /\ handlers'[h].pc = "fetch"
                       /\ ~isLoading /\ isLoading'
                       /\ Len(messages') = n + 2
                       /\ SubSeq(messages', 1, n) = messages
                       /\ messages'[n + 1].role = "user"
                       /\ messages'[n + 2] = Message(handlers'[h].aid, "assistant", <<>>)
              /\ Active(h) => isLoading
              /\ handlers[h].pc \in {"fetch", "text", "json"}
                    => /\ old \in {<<>>, Null}
                       /\ handlers'[h].pc \in {"fetch", "text", "json", "stream"}
                             => new \in {<<>>, Null}
                       /\ (handlers'[h].pc = "done" /\ old = <<>>) => new # <<>>
              /\ (Active(h) /\ new \notin {old, Null})
                    => handlers[h].pc = "stream" \/ handlers'[h].pc = "done"
              /\ (Active(h) /\ handlers'[h].pc = "done") => ~isLoading'
              /\ handlers[h].pc = "done" => handlers'[h] = handlers[h]]_vars

\* the second turn has gone through all its steps on the stream path
C14_Witness ==
    /\ ~isLoading
    /\ Len(messages) = 4
    /\ messages[3].role = "user"
    /\ messages[4].content = <<"H">>
    /\ \A h \in Handlers : handlers[h].pc = "done"

\* C15: a clear, in whatever state it is invoked, leaves the message sequence
\* empty and lastError null and does not change isLoading.
C15_ClearResets ==
    [][ev' = "clear" => (messages' = <<>> /\ error' = Null /\ isLoading' = isLoading)]_vars

\* the conversation was cleared in the middle of a stream that had shown text
C15_Witness ==
    /\ ev = "clear"
    /\ isLoading
    /\ messages = <<>>
    /\ \E h \in Handlers : handlers[h].pc = "stream" /\ handlers[h].acc # <<>>

\* C16: while a request is in flight (isLoading true) the last message of the
\* sequence is the assistant message created by that send.
C16_LastIsInProgress ==
    isLoading
    => /\ messages # <<>>
       /\ messages[Len(messages)].role = "assistant"
       /\ \E h \in Handlers : Active(h) /\ handlers[h].aid = messages[Len(messages)].id

\* C17 as stated: with the page served by this proxy, every reply of the proxy
\* has a success status and a JSON body without an error field, so the page
\* never reads a non-success body and never fails on a structured error.
C17_ErrorBranchesUnreachable ==
    \A h \in Handlers :
        /\ proxy[h].pc = "done"
              => (IsOk(proxy[h].reply.status) /\ proxy[h].reply.error = Null)
        /\ handlers[h].pc # "text"
        /\ error \notin {NoKeyError, BadRequestError, BadModelError, UnexpectedError}

\* C17 amended: the same when the API key is configured; when it is absent or
\* blank the reply is the 500 of the credential check and the page takes its
\* non-success branch.  The structured-error branch is taken in neither case.
C17_ErrorBranchesNeedMissingKey ==
    \A h \in Handlers :
        /\ proxy[h].pc = "done"
              => IF Trim(apiKey) = <<>>
                 THEN proxy[h].reply = Reply(500, NoKeyError, Null)
                 ELSE proxy[h].reply.status = 200 /\ proxy[h].reply.error = Null
        /\ handlers[h].pc = "text" => Trim(apiKey) = <<>>
        /\ error \notin {NoKeyError, BadRequestError, BadModelError, UnexpectedError}

\* with a key configured the upstream call failed and the page shows the
\* proxy's canned text as the assistant's reply, without an error
C17_Witness ==
    /\ ~isLoading
    /\ error = Null
    /\ Len(messages) = 2
    /\ messages[2].content = DegradedText
    /\ \E h \in Handlers : proxy[h].up = "reject" /\ handlers[h].pc = "done"

\* a request the validation of the spec rejects
InvalidRequest(body) ==
    \/ body.syntax # "object"
    \/ ~IsArray(body.messages)
    \/ body.model = Null
    \/ body.model \notin DOMAIN MODEL_MAP

\* C18: every request whose messages field is missing or not a sequence, whose
\* model field is missing or whose model is not a known logical name is answered
\* with status 400, whatever the API key and however malformed the body.
C18_InvalidRequestGets400 ==
    \A p \in Handlers :
        (proxy[p].pc = "done" /\ InvalidRequest(proxy[p].body))
        => proxy[p].reply.status = 400

\* C19: with the API key absent or blank every request ends at once with status
\* 500 and no upstream call; and no request that ends with status 400 or 500 has
\* made an upstream call.
C19_NoUpstreamOnRejection ==
    \A p \in Handlers :
        /\ Trim(apiKey) = <<>>
              => /\ proxy[p].upstream = <<>>
                 /\ proxy[p].pc \in {"idle", "done"}
                 /\ proxy[p].pc = "done" => proxy[p].reply.status = 500
        /\ (proxy[p].pc = "done" /\ proxy[p].reply.status \in {400, 500})
              => proxy[p].upstream = <<>>

\* a well-formed request was refused because the key is blank
C19_Witness ==
    /\ API_KEY = <<" ">>
    /\ \E p \in Handlers :
          /\ proxy[p].pc = "done"
          /\ proxy[p].body = ControllerRequest
          /\ proxy[p].reply = NoKeyReply
          /\ proxy[p].upstream = <<>>

\* C20: a request that reached the upstream call and whose call failed (the
\* fetch rejected, the status was not 2xx, the body was not JSON or held no
\* choice with a message) is answered with status 200, a non-empty content and
\* no error field; no request that made an upstream call ends with a non-2xx
\* status.
C20_UpstreamFailureDegrades ==
    \A p \in Handlers :
        /\ (proxy[p].pc = "done"
               /\ proxy[p].up \in {"reject", "status", "invalid", "null", "noChoice"})
              => /\ proxy[p].reply.status = 200
                 /\ proxy[p].reply.content \notin {Null, <<>>}
                 /\ proxy[p].reply.error = Null
        /\ (proxy[p].pc = "done" /\ proxy[p].upstream # <<>>)
              => IsOk(proxy[p].reply.status)

\* the upstream answered with a non-2xx status and the proxy returned its canned text
C20_Witness ==
    \E p \in Handlers :
        /\ proxy[p].pc = "done"
        /\ proxy[p].up = "status"
        /\ Len(proxy[p].upstream) = 1
        /\ proxy[p].reply = Reply(200, Null, DegradedText)

\* C21: a request makes at most one upstream call, and every upstream call
\* has stream = false and carries the model id that MODEL_MAP gives the
\* request's logical name.
C21_OnePrimaryCall ==
    \A p \in Handlers :
        /\ Len(proxy[p].upstream) <= 1
        /\ \A i \in 1..Len(proxy[p].upstream) :
              /\ proxy[p].upstream[i].stream = FALSE
              /\ proxy[p].body.model \in DOMAIN MODEL_MAP
              /\ proxy[p].upstream[i].model = MODEL_MAP[proxy[p].body.model]

\* C22 as stated: when the upstream body is an object whose first choice has a
\* message, the proxy replies 200 with that message's content, and when this
\* reply reaches the page the assistant message, while in the sequence, gets
\* exactly that content.
C22_CompletionShown ==
    [][\A h \in Handlers :
          /\ \A data \in UpstreamBodies :
                (UpstreamJson(h, data) /\ data.syntax = "object" /\ data.choices = "message")
                => proxy'[h].reply = Reply(200, Null, data.content)
          /\ (ReplyJsonArrives(h) /\ proxy[h].up = "message"
                 /\ Find(messages, handlers[h].aid) # 0)
                => /\ ContentOf(messages', handlers[h].aid) = proxy[h].reply.content
                   /\ error' = Null]_vars

\* C22 amended: the same for a message whose content is a non-empty text
C22_NonEmptyCompletionShown ==
    [][\A h \in Handlers :
          /\ \A data \in UpstreamBodies :
                (UpstreamJson(h, data) /\ data.syntax = "object" /\ data.choices = "message"
                   /\ data.content \notin {Null, <<>>})
                => proxy'[h].reply = Reply(200, Null, data.content)
          /\ (ReplyJsonArrives(h) /\ proxy[h].up = "message"
                 /\ proxy[h].reply.content \notin {Null, <<>>}
                 /\ Find(messages, handlers[h].aid) # 0)
                => /\ ContentOf(messages', handlers[h].aid) = proxy[h].reply.content
                   /\ error' = Null]_vars

\* the upstream's completion is shown as the assistant's reply
C22_Witness ==
    /\ ~isLoading
    /\ error = Null
    /\ Len(messages) = 2
    /\ messages[2].content = <<"Hi">>
    /\ \E h \in Handlers : proxy[h].up = "message" /\ handlers[h].pc = "done"

\* the text the read loop takes from a body that arrives as one chunk
TextOfBody(wire) == TextOfPayloads(Payloads(wire))

\* C23: the final content of a streamed reply does not depend on where the
\* transport cuts the body: after every chunk, the text accumulated so far
\* followed by the text of the frames still to arrive is the concatenation of
\* the values of all text frames of the body.
C23_ChunkingIndependent ==
    [][\A h \in Handlers :
          (handlers[h].pc = "stream" /\ handlers'[h].pc = "stream")
          => handlers'[h].acc \o TextOfBody(handlers'[h].wire)
                = handlers[h].acc \o TextOfBody(handlers[h].wire)]_vars

\* C24: while a send is in progress no step changes a message other than the
\* assistant message of that send, unless it is a clear, which empties the
\* sequence: streamed updates, the JSON content set and the failure handler
\* leave every message of an earlier turn as it is.
C24_OnlyOwnMessageModified ==
    [][\A h \in Handlers :
          Active(h)
          => \/ messages' = <<>>
             \/ /\ Len(messages') = Len(messages)
                /\ \A i \in 1..Len(messages) :
                      messages[i].id # handlers[h].aid => messages'[i] = messages[i]]_vars

\* the second send has failed and the reply of the first turn is as it was
C24_Witness ==
    /\ ev = "async"
    /\ ~isLoading
    /\ error # Null
    /\ Len(messages) = 4
    /\ messages[2].content = <<"X">>
    /\ messages[4].content \in FallbackTexts

\* user, assistant, user, assistant, ...
Alternates(msgs) ==
    /\ Len(msgs) % 2 = 0
    /\ \A i \in 1..Len(msgs) :
          msgs[i].role = IF i % 2 = 1 THEN "user" ELSE "assistant"

\* C25: in every reachable state the sequence has even length and alternates
\* user, assistant, starting with a user message; and only an accepted send
\* makes the sequence longer, so a response after a clear re-adds nothing.
C25_AlternatingTurns ==
    /\ []Alternates(messages)
    /\ [][ev' # "send" => Len(messages') <= Len(messages)]_vars

\* a JSON reply arrived after the conversation was cleared and added nothing
C25_Witness ==
    /\ ev = "async"
    /\ ~isLoading
    /\ error = Null
    /\ messages = <<>>
    /\ \E h \in Handlers : handlers[h].pc = "done"

----------------------------------------------------------------------------
(* The scheduling the browser guarantees: a pending timer fires *)

FairSpec == Spec /\ \A h \in Handlers : WF_vars(Timeout(h))

=============================================================================
